---- MODULE Spec2Model ----
(***************************************************************************)
(* Voice-synced teleprompter: the browser client (capture loop, playback   *)
(* state, result application) and the /transcribe endpoint of the server   *)
(* (text normalisation, windowed fuzzy matching, on/off-script decision).  *)
(*                                                                         *)
(* Text is a sequence of one-character strings; a word is a text without   *)
(* whitespace.  A score is the exact rational num/den; for transcripts of  *)
(* up to three tokens the IEEE-754 sums and quotients the server computes  *)
(* compare (>=, >) exactly as these rationals do.                          *)
(***************************************************************************)
EXTENDS Integers, Sequences, FiniteSets, TLC

\* ------------------------------------------------------------------ bounds
\* Clicks on Start that the model follows (each creates a MediaRecorder and
\* a capture loop).
MaxStarts == 2
\* Requests of /transcribe in flight at once; a request made
\* beyond it is taken to fail at once (fetch rejects), which the client's
\* catch turns into no state change.
MaxInFlight == 2

\* ----------------------------------------------------------- configuration
\* CONFIG.matchingWindow (words)
matchingWindow == 30
\* CONFIG.matchThreshold = 0.6
matchThreshold == [num |-> 6, den |-> 10]
\* JavaScript null for matchedIndex; indices are never negative.
null == -1

\* ------------------------------------------------------------------- text
UpperChars == <<"A","B","C","D","E","F","G","H","I","J","K","L","M",
                "N","O","P","Q","R","S","T","U","V","W","X","Y","Z">>
LowerChars == <<"a","b","c","d","e","f","g","h","i","j","k","l","m",
                "n","o","p","q","r","s","t","u","v","w","x","y","z">>
DigitChars == {"0","1","2","3","4","5","6","7","8","9"}

Range(s) == {s[i] : i \in DOMAIN s}
UpperSet == Range(UpperChars)
LowerSet == Range(LowerChars)

\* String.prototype.toLowerCase, character by character
LowerOf == [c \in UpperSet |->
               LowerChars[CHOOSE i \in DOMAIN UpperChars : UpperChars[i] = c]]
toLowerCase(c) == IF c \in UpperSet THEN LowerOf[c] ELSE c

\* the regular-expression classes \w and \s
WordChars == UpperSet \cup LowerSet \cup DigitChars \cup {"_"}
SpaceChars == {" ", "\t", "\n", "\r"}
IsWordChar(c) == c \in WordChars
IsSpaceChar(c) == c \in SpaceChars

\* KeepChar letting every character through
KeepCharAny(c) == TRUE

KeepChar(c) == IsWordChar(c) \/ IsSpaceChar(c)

\* .replace(/\s+/g, ' '): every maximal run of whitespace becomes one space
RECURSIVE CollapseSpaces(_)
CollapseSpaces(s) ==
    IF s = <<>> THEN <<>>
    ELSE IF IsSpaceChar(Head(s))
         THEN IF Len(s) > 1 /\ IsSpaceChar(s[2])
              THEN CollapseSpaces(Tail(s))
              ELSE <<" ">> \o CollapseSpaces(Tail(s))
         ELSE <<Head(s)>> \o CollapseSpaces(Tail(s))

\* String.prototype.trim
RECURSIVE TrimLeft(_)
TrimLeft(s) ==
    IF s # <<>> /\ IsSpaceChar(Head(s)) THEN TrimLeft(Tail(s)) ELSE s

RECURSIVE TrimRight(_)
TrimRight(s) ==
    IF s # <<>> /\ IsSpaceChar(s[Len(s)])
    THEN TrimRight(SubSeq(s, 1, Len(s) - 1))
    ELSE s

trim(s) == TrimRight(TrimLeft(s))

\* normalizeText without toLowerCase
normalizeTextCaseSensitive(text) ==
    trim(CollapseSpaces(SelectSeq(text, KeepChar)))

\* server.js normalizeText
normalizeText(text) ==
    LET lowered  == [i \in DOMAIN text |-> toLowerCase(text[i])]
        stripped == SelectSeq(lowered, KeepChar)
    IN  trim(CollapseSpaces(stripped))

\* s.split(sep) where one character of `seps` separates: the pieces between
\* separators, empty pieces included ("".split(' ') is [""])
RECURSIVE SplitFrom(_, _, _)
SplitFrom(s, seps, cur) ==
    IF s = <<>> THEN <<cur>>
    ELSE IF Head(s) \in seps
         THEN <<cur>> \o SplitFrom(Tail(s), seps, <<>>)
         ELSE SplitFrom(Tail(s), seps, Append(cur, Head(s)))

NonEmpty(w) == Len(w) > 0

\* normalized.split(' ').filter(w => w.length > 0)
SplitOnSpace(s) == SelectSeq(SplitFrom(s, {" "}, <<>>), NonEmpty)

\* text.split(/\s+/).filter(word => word.length > 0): a run of whitespace is
\* one separator, and the empty pieces are filtered out either way
SplitOnWhitespace(s) == SelectSeq(SplitFrom(s, SpaceChars, <<>>), NonEmpty)

\* String.prototype.includes: b occurs in a as a contiguous run
includes(a, b) ==
    \E i \in 0..(Len(a) - Len(b)) : SubSeq(a, i + 1, i + Len(b)) = b

\* ----------------------------------------------------------------- scores
ZeroScore == [num |-> 0, den |-> 1]
ScoreGE(a, b) == a.num * b.den >= b.num * a.den
\* ScoreGT letting a tie through
ScoreGTOrTie(a, b) == a.num * b.den >= b.num * a.den

ScoreGT(a, b) == a.num * b.den > b.num * a.den
ScoreEQ(a, b) == a.num * b.den = b.num * a.den

\* ---------------------------------------------------------------- matcher
\* WalkStep where an exact match also earns the partial credit
WalkStepCountsTwice(transcriptTokens, scriptWords, j, position, matchCount) ==
    LET scriptWord     == normalizeText(scriptWords[position + 1])
        transcriptWord == transcriptTokens[j]
    IN  IF scriptWord = transcriptWord
        THEN [matchCount |-> matchCount + 15, position |-> position + 1]
        ELSE IF includes(scriptWord, transcriptWord) \/ includes(transcriptWord, scriptWord)
        THEN [matchCount |-> matchCount + 5, position |-> position + 1]
        ELSE IF position + 1 < Len(scriptWords)
        THEN IF normalizeText(scriptWords[position + 2]) = transcriptWord
             THEN [matchCount |-> matchCount + 8, position |-> position + 2]
             ELSE [matchCount |-> matchCount, position |-> position + 1]
        ELSE [matchCount |-> matchCount, position |-> position]

\* WalkStep testing for a substring before testing for equality
WalkStepPartialFirst(transcriptTokens, scriptWords, j, position, matchCount) ==
    LET scriptWord     == normalizeText(scriptWords[position + 1])
        transcriptWord == transcriptTokens[j]
    IN  IF includes(scriptWord, transcriptWord) \/ includes(transcriptWord, scriptWord)
        THEN [matchCount |-> matchCount + 5, position |-> position + 1]
        ELSE IF scriptWord = transcriptWord
        THEN [matchCount |-> matchCount + 10, position |-> position + 1]
        ELSE IF position + 1 < Len(scriptWords)
        THEN IF normalizeText(scriptWords[position + 2]) = transcriptWord
             THEN [matchCount |-> matchCount + 8, position |-> position + 2]
             ELSE [matchCount |-> matchCount, position |-> position + 1]
        ELSE [matchCount |-> matchCount, position |-> position]

\* WalkStep without the skip of one script word
WalkStepNoSkip(transcriptTokens, scriptWords, j, position, matchCount) ==
    LET scriptWord     == normalizeText(scriptWords[position + 1])
        transcriptWord == transcriptTokens[j]
    IN  IF scriptWord = transcriptWord
        THEN [matchCount |-> matchCount + 10, position |-> position + 1]
        ELSE IF includes(scriptWord, transcriptWord) \/ includes(transcriptWord, scriptWord)
        THEN [matchCount |-> matchCount + 5, position |-> position + 1]
        ELSE IF position + 1 < Len(scriptWords)
        THEN [matchCount |-> matchCount, position |-> position + 1]
        ELSE [matchCount |-> matchCount, position |-> position]

\* The body of the inner loop of calculateMatch for transcript token j
\* (1-based) with the cursor at `position` (0-based): the credit and the
\* cursor after it.  The credit is counted in tenths.  When the token matches
\* neither the word at the cursor nor the next one, the cursor moves on only
\* if a next word exists: the last else-if has no else.
WalkStep(transcriptTokens, scriptWords, j, position, matchCount) ==
    LET scriptWord     == normalizeText(scriptWords[position + 1])
        transcriptWord == transcriptTokens[j]
    IN  IF scriptWord = transcriptWord
        THEN [matchCount |-> matchCount + 10, position |-> position + 1]
        ELSE IF includes(scriptWord, transcriptWord) \/ includes(transcriptWord, scriptWord)
        THEN [matchCount |-> matchCount + 5, position |-> position + 1]
        ELSE IF position + 1 < Len(scriptWords)
        THEN IF normalizeText(scriptWords[position + 2]) = transcriptWord
             THEN [matchCount |-> matchCount + 8, position |-> position + 2]
             ELSE [matchCount |-> matchCount, position |-> position + 1]
        ELSE [matchCount |-> matchCount, position |-> position]

\* The inner loop of calculateMatch from transcript token j on.
RECURSIVE WalkFrom(_, _, _, _, _)
WalkFrom(transcriptTokens, scriptWords, j, position, matchCount) ==
    IF j > Len(transcriptTokens) \/ position >= Len(scriptWords)
    THEN [matchCount |-> matchCount, position |-> position]
    ELSE CHOOSE end \in
             {WalkFrom(transcriptTokens, scriptWords, j + 1, step.position, step.matchCount) :
                 step \in {WalkStep(transcriptTokens, scriptWords, j, position, matchCount)}} : TRUE

\* score of the candidate start position i (0-based)
CandidateScore(transcriptTokens, scriptWords, i) ==
    [num |-> WalkFrom(transcriptTokens, scriptWords, 1, i, 0).matchCount,
     den |-> 10 * Len(transcriptTokens)]

\* the outer loop from candidate i on, with the best found so far
RECURSIVE BestFrom(_, _, _, _, _)
BestFrom(transcriptTokens, scriptWords, i, bestScore, bestIndex) ==
    IF i >= Len(scriptWords)
    THEN [score |-> bestScore, matchedIndex |-> bestIndex]
    ELSE LET score == CandidateScore(transcriptTokens, scriptWords, i)
         IN  IF ScoreGT(score, bestScore)
             THEN BestFrom(transcriptTokens, scriptWords, i + 1, score, i)
             ELSE BestFrom(transcriptTokens, scriptWords, i + 1, bestScore, bestIndex)

\* calculateMatch once the transcript is tokenised
MatchTokens(transcriptTokens, scriptWords) ==
    IF Len(transcriptTokens) = 0
    THEN [score |-> ZeroScore, matchedIndex |-> null]
    ELSE BestFrom(transcriptTokens, scriptWords, 0, ZeroScore, null)

\* server.js calculateMatch (the set binds the tokens to their value, so
\* that they are computed once)
calculateMatch(transcript, scriptWords) ==
    CHOOSE result \in
        {MatchTokens(transcriptTokens, scriptWords) :
            transcriptTokens \in {SplitOnSpace(normalizeText(transcript))}} : TRUE

\* ------------------------------------------------------------ the inputs
\* What the user may type into the script box.
ThreeWordText == <<"H","e","l","l","o"," ","w","o","r","l","d"," ","t","h","i","s">>
TwoWordText   == <<" ","H","e","l","l","o","\t","w","o","r","l","d">>
BlankText     == <<" "," ">>
ScriptTexts == {ThreeWordText, TwoWordText, BlankText}

\* What the speech-to-text provider may return for a chunk: nothing; the
\* script's third word; a text that scores exactly the threshold against the
\* window [Hello, world, this] (1 + 0.8 of 3 tokens); a text off the script.
EmptyTranscript    == <<>>
LaterTranscript    == <<"T","h","i","s","!">>
BoundaryTranscript == <<"h","e","l","l","o"," ","t","h","i","s"," ","z","z","z">>
MissTranscript     == <<"z","z","z">>
Transcripts == {EmptyTranscript, LaterTranscript, BoundaryTranscript, MissTranscript}

\* An outcome of openai.audio.transcriptions.create: a text, or an error.
AsrFailure == [ok |-> FALSE, text |-> <<>>]
AsrOutcomes == [ok : {TRUE}, text : Transcripts] \cup {AsrFailure}

\* The end-to-end scenario: the six-word script and the transcript "hello world".
ScenarioText == <<"H","e","l","l","o"," ","w","o","r","l","d"," ","t","h","i","s"," ","i","s"," ","a"," ","t","e","s","t">>
ScenarioTranscript == <<"h","e","l","l","o"," ","w","o","r","l","d">>
ScenarioTexts == {ScenarioText}
ScenarioOutcomes == {[ok |-> TRUE, text |-> ScenarioTranscript], AsrFailure}

\* ------------------------------------------------------------------ state
VARIABLES
    view,              \* which section is displayed: "input" or "teleprompter"
    status,            \* state.status: "IDLE", "RUNNING", "PAUSED"
    scriptWords,       \* state.scriptWords
    currentWordIndex,  \* state.currentWordIndex
    isRecording,       \* state.isRecording
    mediaRecorder,     \* state.mediaRecorder: "null", or its state "inactive" / "recording"
    orphans,           \* recorders replaced while recording: still recording, no longer referenced
    audioChunks,       \* length of state.audioChunks
    startsPending,     \* startTeleprompter calls awaiting getUserMedia
    starts,            \* clicks on Start so far
    endTimers,         \* pending setTimeout(..., CONFIG.chunkDuration) callbacks
    nextTimers,        \* pending setTimeout(recordChunk, 100) callbacks
    net,               \* /transcribe requests in flight, in the order sent
    lastOp,            \* history: the last operation and the response it handled
    stopped,           \* history: stopTeleprompter has run in RUNNING or PAUSED, and
                       \* Start has not been clicked since
    call,              \* the locals of the /transcribe handler while it is followed
                       \* statement by statement (EndpointSpec); NoCall otherwise
    staleTimers        \* history: how many of the pending callbacks of either kind
                       \* were armed before the last call of stopTeleprompter

vars == <<view, status, scriptWords, currentWordIndex, isRecording, mediaRecorder,
          orphans, audioChunks, startsPending, starts, endTimers, nextTimers, net,
          lastOp, stopped, call, staleTimers>>

\* No request is being followed through the handler.
NoCall == [phase |-> "none"]

NoMessage == [kind |-> "none"]

Op(name, message) == [op |-> name, message |-> message]

Min(a, b) == IF a < b THEN a ELSE b

RemoveAt(s, i) == SubSeq(s, 1, i - 1) \o SubSeq(s, i + 1, Len(s))

\* Callbacks of the same kind have the same delay, so they run in the order
\* they were armed: of the pending ones, those armed before the last stop
\* run first.
NoTimers == [chunk |-> 0, gap |-> 0]

Init ==
    /\ view = "input"
    /\ status = "IDLE"
    /\ scriptWords = <<>>
    /\ currentWordIndex = 0
    /\ isRecording = FALSE
    /\ mediaRecorder = "null"
    /\ orphans = 0
    /\ audioChunks = 0
    /\ startsPending = 0
    /\ starts = 0
    /\ endTimers = 0
    /\ nextTimers = 0
    /\ net = <<>>
    /\ lastOp = Op("init", NoMessage)
    /\ stopped = FALSE
    /\ call = NoCall
    /\ staleTimers = NoTimers

\* BuildRequest sending the script from currentWordIndex to its end
BuildRequestToEnd ==
    [kind         |-> "request",
     scriptWindow |-> SubSeq(scriptWords, currentWordIndex + 1, Len(scriptWords)),
     currentIndex |-> currentWordIndex,
     threshold    |-> matchThreshold]

\* ----------------------------------------------------------------- client
\* processAudioChunk up to the fetch: the window is cut from the script at
\* currentWordIndex as they are when the request is built.
BuildRequest ==
    LET windowStart == currentWordIndex
        windowEnd   == Min(currentWordIndex + matchingWindow, Len(scriptWords))
    IN  [kind         |-> "request",
         scriptWindow |-> SubSeq(scriptWords, windowStart + 1, windowEnd),
         currentIndex |-> currentWordIndex,
         threshold    |-> matchThreshold]

\* processAudioChunk called with `chunks` blobs in state.audioChunks: the net
\* after its fetch (none when there is no audio).
processAudioChunk(chunks) ==
    IF chunks = 0 THEN net
    ELSE IF Len(net) < MaxInFlight THEN Append(net, BuildRequest)
    ELSE net

\* MediaRecorder.stop() on a recording recorder, with the two events it
\* fires: ondataavailable pushes the blob when it has a size, then onstop
\* sends the chunk when state.audioChunks is not empty.
ChunksAfterStop(hasData) == IF hasData THEN audioChunks + 1 ELSE audioChunks
NetAfterStop(hasData) == processAudioChunk(ChunksAfterStop(hasData))

\* loadScript
loadScript(text) ==
    LET scriptText == trim(text)
        words      == SplitOnWhitespace(scriptText)
    IN  /\ view = "input"
        /\ lastOp' = Op("loadScript", NoMessage)
        /\ UNCHANGED stopped
        /\ UNCHANGED <<call, staleTimers>>
        /\ IF scriptText = <<>> \/ Len(words) = 0
           THEN UNCHANGED <<view, scriptWords, currentWordIndex>>
           ELSE /\ scriptWords' = words
                /\ view' = "teleprompter"
                /\ currentWordIndex' = 0
        /\ UNCHANGED <<status, isRecording, mediaRecorder, orphans, audioChunks,
                       startsPending, starts, endTimers, nextTimers, net>>

\* startTeleprompter up to its await: the Start button is enabled while the
\* status is IDLE (updateUI).
startTeleprompter ==
    /\ view = "teleprompter"
    /\ status = "IDLE"
    /\ starts < MaxStarts
    /\ starts' = starts + 1
    /\ startsPending' = startsPending + 1
    /\ lastOp' = Op("start", NoMessage)
    /\ stopped' = FALSE
    /\ UNCHANGED <<call, staleTimers>>
    /\ UNCHANGED <<view, status, scriptWords, currentWordIndex, isRecording,
                   mediaRecorder, orphans, audioChunks, endTimers, nextTimers, net>>

\* startTeleprompter after getUserMedia resolves: a new MediaRecorder,
\* startRecordingLoop (isRecording, the first recordChunk), status RUNNING.
microphoneGranted ==
    /\ startsPending > 0
    /\ startsPending' = startsPending - 1
    /\ orphans' = IF mediaRecorder = "recording" THEN orphans + 1 ELSE orphans
    /\ isRecording' = TRUE
    /\ audioChunks' = 0
    /\ mediaRecorder' = "recording"
    /\ endTimers' = endTimers + 1
    /\ status' = "RUNNING"
    /\ lastOp' = Op("granted", NoMessage)
    /\ UNCHANGED stopped
    /\ UNCHANGED <<call, staleTimers>>
    /\ UNCHANGED <<view, scriptWords, currentWordIndex, starts, nextTimers, net>>

\* startTeleprompter when getUserMedia rejects: the catch block
microphoneDenied ==
    /\ startsPending > 0
    /\ startsPending' = startsPending - 1
    /\ lastOp' = Op("denied", NoMessage)
    /\ UNCHANGED stopped
    /\ UNCHANGED <<call, staleTimers>>
    /\ UNCHANGED <<view, status, scriptWords, currentWordIndex, isRecording,
                   mediaRecorder, orphans, audioChunks, starts, endTimers, nextTimers, net>>

\* chunkTimeout arming the next chunk only while on script
chunkTimeoutOnScriptOnly(hasData) ==
    /\ endTimers > 0
    /\ endTimers' = endTimers - 1
    /\ IF mediaRecorder = "recording"
       THEN /\ mediaRecorder' = "inactive"
            /\ audioChunks' = ChunksAfterStop(hasData)
            /\ net' = NetAfterStop(hasData)
       ELSE /\ hasData
            /\ UNCHANGED <<mediaRecorder, audioChunks, net>>
    /\ nextTimers' = IF isRecording /\ status = "RUNNING" THEN nextTimers + 1 ELSE nextTimers
    /\ lastOp' = Op("chunkTimeout", NoMessage)
    /\ UNCHANGED stopped
    /\ UNCHANGED call
    /\ staleTimers' = [staleTimers EXCEPT !.chunk = IF @ > 0 THEN @ - 1 ELSE 0]
    /\ UNCHANGED <<view, status, scriptWords, currentWordIndex, isRecording,
                   orphans, startsPending, starts>>

\* the callback of setTimeout(..., CONFIG.chunkDuration) in recordChunk
chunkTimeout(hasData) ==
    /\ endTimers > 0
    /\ endTimers' = endTimers - 1
    /\ IF mediaRecorder = "recording"
       THEN /\ mediaRecorder' = "inactive"
            /\ audioChunks' = ChunksAfterStop(hasData)
            /\ net' = NetAfterStop(hasData)
       ELSE /\ hasData
            /\ UNCHANGED <<mediaRecorder, audioChunks, net>>
    /\ nextTimers' = IF isRecording THEN nextTimers + 1 ELSE nextTimers
    /\ lastOp' = Op("chunkTimeout", NoMessage)
    /\ UNCHANGED stopped
    /\ UNCHANGED call
    /\ staleTimers' = [staleTimers EXCEPT !.chunk = IF @ > 0 THEN @ - 1 ELSE 0]
    /\ UNCHANGED <<view, status, scriptWords, currentWordIndex, isRecording,
                   orphans, startsPending, starts>>

\* recordChunk run by setTimeout(recordChunk, 100).  MediaRecorder.start()
\* throws InvalidStateError on a recorder that is recording (and on null a
\* TypeError): the callback ends there and arms no timer.
recordChunk ==
    /\ nextTimers > 0
    /\ nextTimers' = nextTimers - 1
    /\ IF ~isRecording
       THEN UNCHANGED <<audioChunks, mediaRecorder, endTimers>>
       ELSE /\ audioChunks' = 0
            /\ IF mediaRecorder = "inactive"
               THEN /\ mediaRecorder' = "recording"
                    /\ endTimers' = endTimers + 1
               ELSE UNCHANGED <<mediaRecorder, endTimers>>
    /\ lastOp' = Op("recordChunk", NoMessage)
    /\ UNCHANGED stopped
    /\ UNCHANGED call
    /\ staleTimers' = [staleTimers EXCEPT !.gap = IF @ > 0 THEN @ - 1 ELSE 0]
    /\ UNCHANGED <<view, status, scriptWords, currentWordIndex, isRecording,
                   orphans, startsPending, starts, net>>

\* the body of stopTeleprompter
StopBody(hasData) ==
    /\ isRecording' = FALSE
    /\ IF mediaRecorder = "recording"
       THEN /\ audioChunks' = ChunksAfterStop(hasData)
            /\ net' = NetAfterStop(hasData)
       ELSE /\ hasData
            /\ UNCHANGED <<audioChunks, net>>
    /\ mediaRecorder' = "null"
    /\ status' = "IDLE"

\* stopTeleprompter: the Stop button is enabled while the status is not IDLE
stopTeleprompter(hasData) ==
    /\ view = "teleprompter"
    /\ status # "IDLE"
    /\ StopBody(hasData)
    /\ lastOp' = Op("stop", NoMessage)
    /\ stopped' = TRUE
    /\ UNCHANGED call
    /\ staleTimers' = [chunk |-> endTimers, gap |-> nextTimers]
    /\ UNCHANGED <<view, scriptWords, currentWordIndex, orphans, startsPending,
                   starts, endTimers, nextTimers>>

\* editScript: stopTeleprompter, then back to the input section
editScript(hasData) ==
    /\ view = "teleprompter"
    /\ StopBody(hasData)
    /\ view' = "input"
    /\ lastOp' = Op("editScript", NoMessage)
    /\ stopped' = (status # "IDLE" \/ stopped)
    /\ UNCHANGED call
    /\ staleTimers' = [chunk |-> endTimers, gap |-> nextTimers]
    /\ UNCHANGED <<scriptWords, currentWordIndex, orphans, startsPending,
                   starts, endTimers, nextTimers>>

\* resetPosition ending the session as well
resetPositionStops ==
    /\ view = "teleprompter"
    /\ currentWordIndex' = 0
    /\ status' = "IDLE"
    /\ isRecording' = FALSE
    /\ lastOp' = Op("reset", NoMessage)
    /\ UNCHANGED stopped
    /\ UNCHANGED <<call, staleTimers>>
    /\ UNCHANGED <<view, scriptWords, mediaRecorder, orphans,
                   audioChunks, startsPending, starts, endTimers, nextTimers, net>>

\* resetPosition
resetPosition ==
    /\ view = "teleprompter"
    /\ currentWordIndex' = 0
    /\ lastOp' = Op("reset", NoMessage)
    /\ UNCHANGED stopped
    /\ UNCHANGED <<call, staleTimers>>
    /\ UNCHANGED <<view, status, scriptWords, isRecording, mediaRecorder, orphans,
                   audioChunks, startsPending, starts, endTimers, nextTimers, net>>

\* jumpToWord(index), from the click handler of the word span `index`
jumpToWord(index) ==
    /\ view = "teleprompter"
    /\ currentWordIndex' = index
    /\ lastOp' = Op("jump", NoMessage)
    /\ UNCHANGED stopped
    /\ UNCHANGED <<call, staleTimers>>
    /\ UNCHANGED <<view, status, scriptWords, isRecording, mediaRecorder, orphans,
                   audioChunks, startsPending, starts, endTimers, nextTimers, net>>

\* Decide with a strict comparison against the threshold
DecideStrict(req, transcript, matchResult) ==
    LET state == IF ScoreGT(matchResult.score, req.threshold)
                 THEN "RUNNING" ELSE "PAUSED"
        absoluteMatchedIndex ==
            IF matchResult.matchedIndex # null /\ state = "RUNNING"
            THEN req.currentIndex + matchResult.matchedIndex
            ELSE null
    IN  [kind |-> "response", ok |-> TRUE, transcript |-> transcript,
         confidence |-> matchResult.score,
         matchedIndex |-> absoluteMatchedIndex, state |-> state, request |-> req]

\* Decide reporting the matched index whatever the state
DecideKeepsIndex(req, transcript, matchResult) ==
    LET state == IF ScoreGE(matchResult.score, req.threshold)
                 THEN "RUNNING" ELSE "PAUSED"
        absoluteMatchedIndex ==
            IF matchResult.matchedIndex # null
            THEN req.currentIndex + matchResult.matchedIndex
            ELSE null
    IN  [kind |-> "response", ok |-> TRUE, transcript |-> transcript,
         confidence |-> matchResult.score,
         matchedIndex |-> absoluteMatchedIndex, state |-> state, request |-> req]

\* ----------------------------------------------------------------- server
\* POST /transcribe from the match result on: the state, the absolute index
\* and the response.
Decide(req, transcript, matchResult) ==
    LET state == IF ScoreGE(matchResult.score, req.threshold)
                 THEN "RUNNING" ELSE "PAUSED"
        absoluteMatchedIndex ==
            IF matchResult.matchedIndex # null /\ state = "RUNNING"
            THEN req.currentIndex + matchResult.matchedIndex
            ELSE null
    IN  [kind |-> "response", ok |-> TRUE, transcript |-> transcript,
         confidence |-> matchResult.score,
         matchedIndex |-> absoluteMatchedIndex, state |-> state, request |-> req]

\* NoTranscript testing the text as it came
NoTranscriptUntrimmed(transcript) == transcript = <<>>

\* !transcript.trim(): the transcript is empty or whitespace only
NoTranscript(transcript) == trim(transcript) = <<>>

\* POST /transcribe for the request `req` when the provider answers `asr`.
\* JSON.parse, parseInt and parseFloat give back the window, the index and
\* the threshold the client serialised.  (The set binds the match result to
\* its value, so that it is computed once.)
Transcribe(req, asr) ==
    IF ~asr.ok
    THEN [kind |-> "response", ok |-> FALSE, transcript |-> <<>>, confidence |-> ZeroScore,
          matchedIndex |-> null, state |-> "PAUSED", request |-> req]
    ELSE IF NoTranscript(asr.text)
    THEN [kind |-> "response", ok |-> TRUE, transcript |-> <<>>, confidence |-> ZeroScore,
          matchedIndex |-> null, state |-> "PAUSED", request |-> req]
    ELSE CHOOSE response \in
             {Decide(req, asr.text, matchResult) :
                 matchResult \in {calculateMatch(asr.text, req.scriptWindow)}} : TRUE

\* HandleResult testing the state alone: null + 1 is 1 in JavaScript
HandleResultOnStateOnly(result) ==
    IF result.state = "RUNNING"
    THEN /\ currentWordIndex' = (IF result.matchedIndex = null THEN 0 ELSE result.matchedIndex) + 1
         /\ status' = "RUNNING"
    ELSE /\ status' = "PAUSED"
         /\ UNCHANGED currentWordIndex

\* processAudioChunk after the fetch, for a response with an OK status
HandleResult(result) ==
    IF result.state = "RUNNING" /\ result.matchedIndex # null
    THEN /\ currentWordIndex' = result.matchedIndex + 1
         /\ status' = "RUNNING"
    ELSE /\ status' = "PAUSED"
         /\ UNCHANGED currentWordIndex

\* HandleFailure treating a failed call as a miss
HandleFailurePauses ==
    /\ status' = "PAUSED"
    /\ UNCHANGED currentWordIndex

\* processAudioChunk when the fetch fails or the status is not OK: the catch
HandleFailure == UNCHANGED <<status, currentWordIndex>>

\* One /transcribe exchange completes: the server handles the request at
\* place i of the net with the provider's outcome `asr`, and the response
\* reaches the client, which runs the rest of processAudioChunk.  The server
\* keeps no state between requests, so when it runs within the exchange
\* changes nothing the client can see.
respond(i, asr) ==
    /\ i \in DOMAIN net
    /\ \E response \in {Transcribe(net[i], asr)} :
           /\ IF response.ok THEN HandleResult(response) ELSE HandleFailure
           /\ lastOp' = Op(IF response.ok THEN "result" ELSE "failure", response)
    /\ net' = RemoveAt(net, i)
    /\ UNCHANGED <<view, scriptWords, isRecording, mediaRecorder, orphans, audioChunks,
                   startsPending, starts, endTimers, nextTimers, stopped, call,
                   staleTimers>>

\* ------------------------------------------------------------ the system
NextOn(texts, outcomes) ==
    \/ \E text \in texts : loadScript(text)
    \/ startTeleprompter
    \/ microphoneGranted
    \/ microphoneDenied
    \/ \E hasData \in BOOLEAN : chunkTimeout(hasData)
    \/ recordChunk
    \/ \E hasData \in BOOLEAN : stopTeleprompter(hasData)
    \/ \E hasData \in BOOLEAN : editScript(hasData)
    \/ resetPosition
    \/ \E index \in 0..(Len(scriptWords) - 1) : jumpToWord(index)
    \/ \E i \in 1..MaxInFlight, asr \in outcomes : respond(i, asr)

Next == NextOn(ScriptTexts, AsrOutcomes)

Spec == Init /\ [][Next]_vars

\* The same system on the inputs of the end-to-end scenario.
ScenarioNext == NextOn(ScenarioTexts, ScenarioOutcomes)

ScenarioSpec == Init /\ [][ScenarioNext]_vars

\* Timers fire: a pending setTimeout callback is run eventually.
FairSpec ==
    /\ Spec
    /\ WF_vars(\E hasData \in BOOLEAN : chunkTimeout(hasData))
    /\ WF_vars(recordChunk)

\* jumpToWord on any index.  The click handlers call it with
\* parseInt(dataset.wordIndex) of whatever element of class "word" the
\* display holds, and loadScript writes the script's words into innerHTML as
\* they are, so a word that is markup (<span/class=word/data-word-index=7>)
\* yields a handler with an index that is not a place of the script; the
\* function is also a global of the page.  The indices here go Overshoot
\* beyond either end of the script.  No capture is started: the microphone
\* is refused.
Overshoot == 2

JumpIndices == (0 - Overshoot)..(Len(scriptWords) + Overshoot)

JumpNext ==
    \/ \E text \in ScriptTexts : loadScript(text)
    \/ \E hasData \in BOOLEAN : editScript(hasData)
    \/ startTeleprompter
    \/ microphoneDenied
    \/ resetPosition
    \/ \E index \in JumpIndices : jumpToWord(index)

JumpSpec == Init /\ [][JumpNext]_vars

\* ------------------------------------------- the endpoint, step by step
\* One /transcribe request followed through the handler statement by
\* statement, and its response through the client.  The request is any the
\* endpoint accepts: the threshold is a form field, read with parseFloat.
MaxScriptWords == 2
MaxTokens == 2

wThe   == <<"T","h","e">>
wquick == <<"q","u","i","c","k">>
wbrown == <<"b","r","o","w","n">>
wfox   == <<"f","o","x">>
wjumps == <<"j","u","m","p","s">>
wqu    == <<"q","u">>
wDash  == <<"-","-">>
tthe   == <<"t","h","e">>
tzzz   == <<"z","z","z">>

\* Array.prototype.join(' ')
RECURSIVE JoinWords(_)
JoinWords(ws) ==
    IF ws = <<>> THEN <<>>
    ELSE IF Len(ws) = 1 THEN ws[1]
    ELSE ws[1] \o <<" ">> \o JoinWords(Tail(ws))

SeqsUpTo(S, n) == UNION {[1..k -> S] : k \in 0..n}

\* The scripts a request's window is cut from: every script of up to
\* MaxScriptWords words over four words (one a substring of another), the
\* windows of the matcher's worked examples, and a script with a word of
\* punctuation only.
EndpointScripts ==
    (SeqsUpTo({wThe, wquick, wfox, wqu}, MaxScriptWords) \ {<<>>})
        \cup {<<wThe, wquick, wfox, wjumps>>, <<tthe, wquick, wbrown, wfox>>,
              <<wDash, wfox>>}

EndpointThresholds == {[num |-> 0, den |-> 1], matchThreshold, [num |-> 1, den |-> 1]}

\* What the provider may return: every text of up to MaxTokens tokens over
\* five tokens, the transcript of the worked examples, texts of whitespace
\* only and of punctuation only, a text with capitals, punctuation and runs
\* of whitespace, a text with a character that is neither \w nor \s, a
\* three-token text with the first or the last script word left out.
EndpointTranscripts ==
    {JoinWords(ts) : ts \in SeqsUpTo({tthe, wquick, wfox, wqu, tzzz}, MaxTokens)}
        \cup {JoinWords(<<tthe, wquick, wfox>>),
              JoinWords(<<wquick, wfox, wjumps>>),
              <<" ", "\t", " ">>,
              <<"?", "!", " ", ".">>,
              <<" ","T","h","e",",","\t"," ","Q","U","I","C","K","_","1","\n","f","o","x","!"," ">>,
              <<"f","o","x","é","s">>}

EndpointOutcomes == [ok : {TRUE}, text : EndpointTranscripts] \cup {AsrFailure}

\* The request processAudioChunk builds for `script` at index `index`, with
\* the threshold field set to `threshold`.
RequestFor(script, index, threshold) ==
    [kind         |-> "request",
     scriptWindow |-> SubSeq(script, index + 1, Min(index + matchingWindow, Len(script))),
     currentIndex |-> index,
     threshold    |-> threshold]

\* The handler's locals when the request arrives.
Received(req) ==
    [phase |-> "received", req |-> req, asr |-> AsrFailure, transcript |-> <<>>,
     transcriptTokens |-> <<>>, i |-> 0, j |-> 0, position |-> 0, matchCount |-> 0,
     bestScore |-> ZeroScore, bestIndex |-> null,
     matchResult |-> [score |-> ZeroScore, matchedIndex |-> null],
     response |-> NoMessage]

\* The client is capturing, between two chunks, and the request of the chunk
\* just sent has reached the server.
EndpointInit ==
    \E script \in EndpointScripts, threshold \in EndpointThresholds :
      \E index \in 0..Len(script) :
        /\ view = "teleprompter"
        /\ status = "RUNNING"
        /\ scriptWords = script
        /\ currentWordIndex = index
        /\ isRecording = TRUE
        /\ mediaRecorder = "inactive"
        /\ orphans = 0
        /\ audioChunks = 1
        /\ startsPending = 0
        /\ starts = 1
        /\ endTimers = 0
        /\ nextTimers = 1
        /\ net = <<RequestFor(script, index, threshold)>>
        /\ lastOp = Op("chunkTimeout", NoMessage)
        /\ stopped = FALSE
        /\ call = Received(RequestFor(script, index, threshold))
        /\ staleTimers = NoTimers

ClientUnchanged ==
    UNCHANGED <<view, status, scriptWords, currentWordIndex, isRecording, mediaRecorder,
                orphans, audioChunks, startsPending, starts, endTimers, nextTimers, net,
                lastOp, stopped, staleTimers>>

\* returnBest falling back to the first position when no candidate was kept
returnBestDefaultsToStart ==
    /\ call.phase = "candidates"
    /\ call.i >= Len(call.req.scriptWindow)
    /\ call' = [call EXCEPT !.phase = "matched",
                   !.matchResult = [score |-> call.bestScore,
                                    matchedIndex |-> IF call.bestIndex = null
                                                     THEN 0 ELSE call.bestIndex]]
    /\ ClientUnchanged

\* endWalk keeping the first candidate whatever it scores
endWalkKeepsFirst ==
    /\ call.phase = "walk"
    /\ ~(call.j < Len(call.transcriptTokens) /\ call.position < Len(call.req.scriptWindow))
    /\ LET score == [num |-> call.matchCount, den |-> 10 * Len(call.transcriptTokens)]
       IN  call' = IF call.bestIndex = null \/ ScoreGT(score, call.bestScore)
                   THEN [call EXCEPT !.phase = "candidates", !.bestScore = score,
                                     !.bestIndex = call.i, !.i = call.i + 1]
                   ELSE [call EXCEPT !.phase = "candidates", !.i = call.i + 1]
    /\ ClientUnchanged

\* endWalk recording the candidate's place counted from 1
endWalkOneBased ==
    /\ call.phase = "walk"
    /\ ~(call.j < Len(call.transcriptTokens) /\ call.position < Len(call.req.scriptWindow))
    /\ LET score == [num |-> call.matchCount, den |-> 10 * Len(call.transcriptTokens)]
       IN  call' = IF ScoreGT(score, call.bestScore)
                   THEN [call EXCEPT !.phase = "candidates", !.bestScore = score,
                                     !.bestIndex = call.i + 1, !.i = call.i + 1]
                   ELSE [call EXCEPT !.phase = "candidates", !.i = call.i + 1]
    /\ ClientUnchanged

\* POST /transcribe up to the call of calculateMatch: the provider answers
\* `asr`; an error goes to the catch (status 500), a transcript that trims to
\* nothing returns the PAUSED response at once.
transcription(asr) ==
    /\ call.phase = "received"
    /\ call' = IF ~asr.ok
               THEN [call EXCEPT !.phase = "responded", !.asr = asr,
                         !.response = Transcribe(call.req, asr)]
               ELSE IF NoTranscript(asr.text)
               THEN [call EXCEPT !.phase = "responded", !.asr = asr,
                         !.response =
                             [kind |-> "response", ok |-> TRUE, transcript |-> <<>>,
                              confidence |-> ZeroScore, matchedIndex |-> null,
                              state |-> "PAUSED", request |-> call.req]]
               ELSE [call EXCEPT !.phase = "calculateMatch", !.asr = asr,
                         !.transcript = asr.text]
    /\ ClientUnchanged

\* calculateMatch up to its outer loop
tokenize ==
    /\ call.phase = "calculateMatch"
    /\ \E transcriptTokens \in {SplitOnSpace(normalizeText(call.transcript))} :
         call' = IF Len(transcriptTokens) = 0
                 THEN [call EXCEPT !.phase = "matched",
                           !.transcriptTokens = transcriptTokens,
                           !.matchResult = [score |-> ZeroScore, matchedIndex |-> null]]
                 ELSE [call EXCEPT !.phase = "candidates",
                           !.transcriptTokens = transcriptTokens,
                           !.bestScore = ZeroScore, !.bestIndex = null, !.i = 0]
    /\ ClientUnchanged

\* the outer loop of calculateMatch enters its body for candidate i
nextCandidate ==
    /\ call.phase = "candidates"
    /\ call.i < Len(call.req.scriptWindow)
    /\ call' = [call EXCEPT !.phase = "walk", !.matchCount = 0,
                            !.position = call.i, !.j = 0]
    /\ ClientUnchanged

\* one pass of the inner loop of calculateMatch
walkToken ==
    /\ call.phase = "walk"
    /\ call.j < Len(call.transcriptTokens)
    /\ call.position < Len(call.req.scriptWindow)
    /\ \E step \in {WalkStep(call.transcriptTokens, call.req.scriptWindow,
                             call.j + 1, call.position, call.matchCount)} :
         call' = [call EXCEPT !.matchCount = step.matchCount,
                              !.position = step.position, !.j = call.j + 1]
    /\ ClientUnchanged

\* the inner loop ends: the candidate's score, and the best so far
endWalk ==
    /\ call.phase = "walk"
    /\ ~(call.j < Len(call.transcriptTokens) /\ call.position < Len(call.req.scriptWindow))
    /\ LET score == [num |-> call.matchCount, den |-> 10 * Len(call.transcriptTokens)]
       IN  call' = IF ScoreGT(score, call.bestScore)
                   THEN [call EXCEPT !.phase = "candidates", !.bestScore = score,
                                     !.bestIndex = call.i, !.i = call.i + 1]
                   ELSE [call EXCEPT !.phase = "candidates", !.i = call.i + 1]
    /\ ClientUnchanged

\* the outer loop ends: calculateMatch returns
returnBest ==
    /\ call.phase = "candidates"
    /\ call.i >= Len(call.req.scriptWindow)
    /\ call' = [call EXCEPT !.phase = "matched",
                   !.matchResult = [score |-> call.bestScore, matchedIndex |-> call.bestIndex]]
    /\ ClientUnchanged

\* POST /transcribe from the match result to res.json
decide ==
    /\ call.phase = "matched"
    /\ call' = [call EXCEPT !.phase = "responded",
                   !.response = Decide(call.req, call.transcript, call.matchResult)]
    /\ ClientUnchanged

\* the response reaches the client, which runs the rest of processAudioChunk
deliver ==
    /\ call.phase = "responded"
    /\ net # <<>>
    /\ IF call.response.ok THEN HandleResult(call.response) ELSE HandleFailure
    /\ lastOp' = Op(IF call.response.ok THEN "result" ELSE "failure", call.response)
    /\ net' = Tail(net)
    /\ call' = [call EXCEPT !.phase = "applied"]
    /\ UNCHANGED <<view, scriptWords, isRecording, mediaRecorder, orphans, audioChunks,
                   startsPending, starts, endTimers, nextTimers, stopped,
                   staleTimers>>

EndpointNext ==
    \/ \E asr \in EndpointOutcomes : transcription(asr)
    \/ tokenize
    \/ nextCandidate
    \/ walkToken
    \/ endWalk
    \/ returnBest
    \/ decide
    \/ deliver

EndpointSpec == EndpointInit /\ [][EndpointNext]_vars

\* The handler followed step by step computes what calculateMatch and the
\* whole exchange compute in one step.
CallAgrees ==
    /\ call.phase = "matched" =>
           call.matchResult = calculateMatch(call.transcript, call.req.scriptWindow)
    /\ call.phase \in {"responded", "applied"} =>
           call.response = Transcribe(call.req, call.asr)

\* ------------------------------------- a script longer than the window
\* The client on a script of matchingWindow + ExtraWords words, all
\* different, so that both ends of the window are cut inside the script.
\* The script is loaded once; words are clicked at the places WindowJumps;
\* the provider fails or hears the last word of the first window.
ExtraWords == 2

LongWord(k) == <<LowerChars[((k - 1) \div 26) + 1], LowerChars[((k - 1) % 26) + 1]>>

LongWords == [k \in 1..(matchingWindow + ExtraWords) |-> LongWord(k)]

LongText == JoinWords(LongWords)

WindowJumps == {1, ExtraWords + 1}

WindowOutcomes ==
    {AsrFailure,
     [ok |-> TRUE, text |-> LongWord(matchingWindow)]}

WindowNext ==
    \/ loadScript(LongText)
    \/ startTeleprompter
    \/ microphoneGranted
    \/ \E hasData \in BOOLEAN : chunkTimeout(hasData)
    \/ recordChunk
    \/ \E hasData \in BOOLEAN : stopTeleprompter(hasData)
    \/ resetPosition
    \/ \E index \in WindowJumps \cap (0..(Len(scriptWords) - 1)) : jumpToWord(index)
    \/ \E i \in 1..MaxInFlight, asr \in WindowOutcomes : respond(i, asr)

WindowSpec == Init /\ [][WindowNext]_vars

\* ------------------------------------------------------------ properties
\* A step that applies a transcription result (a response with an OK status).
ResultStep == lastOp'.op = "result"
\* A step in which a capture begins: every MediaRecorder.start() arms the
\* timer that ends the chunk, and nothing else does.
CaptureBegins == endTimers' > endTimers
\* The recordings in progress.
Captures == orphans + (IF mediaRecorder = "recording" THEN 1 ELSE 0)

\* C1: a step that applies a transcription result never lowers currentWordIndex.
C1_ResultNeverLowersIndex ==
    [][ResultStep => currentWordIndex' >= currentWordIndex]_vars

\* C2: results are applied in the order their chunks were sent: the result
\* applied is that of the oldest request in flight.
C2_AppliedInSendOrder ==
    [][ResultStep => net' = Tail(net)]_vars

\* C3: once stopTeleprompter has run and until Start is clicked again, a
\* result that arrives leaves currentWordIndex as it was and status IDLE.
C3_LateResultIgnored ==
    [][(ResultStep /\ stopped) =>
         /\ status' = "IDLE"
         /\ currentWordIndex' = currentWordIndex]_vars

\* C4: applying a result whose match score is at least the threshold and whose
\* matched index is not null sets currentWordIndex to the window start plus the
\* window-relative matched index plus one, and status to RUNNING; applying any
\* other result sets status to PAUSED.
C4_ApplyRule ==
    [][ResultStep =>
         \A result \in {lastOp'.message} :
         \A matchResult \in {calculateMatch(result.transcript,
                                             result.request.scriptWindow)} :
             IF ScoreGE(matchResult.score, result.request.threshold)
                /\ matchResult.matchedIndex # null
             THEN /\ currentWordIndex' =
                        result.request.currentIndex + matchResult.matchedIndex + 1
                  /\ status' = "RUNNING"
             ELSE status' = "PAUSED"]_vars

\* C4 witness: a result scoring exactly the threshold was applied, and the
\* teleprompter runs one past the window start.
C4_Witness ==
    /\ lastOp.op = "result"
    /\ ScoreEQ(lastOp.message.confidence, lastOp.message.request.threshold)
    /\ status = "RUNNING"
    /\ currentWordIndex = lastOp.message.request.currentIndex + 1

\* C5: at most one recording is in progress, and at most one capture loop
\* (one armed timer) drives the recorder.
C5_OneCapture ==
    /\ Captures <= 1
    /\ isRecording => endTimers + nextTimers <= 1

\* C6: currentWordIndex lies within the loaded script.
C6_IndexInRange ==
    /\ 0 <= currentWordIndex
    /\ currentWordIndex <= Len(scriptWords)

\* The response of the end-to-end scenario: the six-word script as the window
\* from index 0, the transcript "hello world", the threshold 0.6.
IsScenarioResult(result) ==
    /\ result.request.scriptWindow = SplitOnWhitespace(ScenarioText)
    /\ result.request.currentIndex = 0
    /\ result.request.threshold = matchThreshold
    /\ result.transcript = ScenarioTranscript

\* C7 as stated: the scenario's response has matchedIndex 1 and state RUNNING,
\* and once it is applied currentWordIndex is 2.
C7_ScenarioAsStated ==
    (lastOp.op = "result" /\ IsScenarioResult(lastOp.message)) =>
        /\ lastOp.message.matchedIndex = 1
        /\ lastOp.message.state = "RUNNING"
        /\ currentWordIndex = 2

\* C7 amended: the scenario's response has matchedIndex 0 (the start of the
\* match) and state RUNNING, and once it is applied currentWordIndex is 1.
C7_Scenario ==
    (lastOp.op = "result" /\ IsScenarioResult(lastOp.message)) =>
        /\ lastOp.message.matchedIndex = 0
        /\ lastOp.message.state = "RUNNING"
        /\ status = "RUNNING"
        /\ currentWordIndex = 1

\* C7 witness: the scenario's response has been applied.
C7_Witness ==
    /\ lastOp.op = "result"
    /\ IsScenarioResult(lastOp.message)
    /\ currentWordIndex = 1

\* C8: stopTeleprompter leaves status IDLE in the same step, and from then on
\* no capture begins before Start is clicked again.
C8_StopIsFinal ==
    [][/\ lastOp'.op = "stop" => status' = "IDLE"
       /\ stopped => ~CaptureBegins]_vars

\* C9: a failed transcription call changes neither status nor currentWordIndex.
C9_FailureChangesNothing ==
    [][lastOp'.op = "failure" => UNCHANGED <<status, currentWordIndex>>]_vars

\* C9 witness: a call has failed while the teleprompter was capturing, and it
\* still runs.
C9_Witness ==
    /\ lastOp.op = "failure"
    /\ isRecording
    /\ status = "RUNNING"

\* C10: while capturing is active, whenever a capture has completed another
\* one eventually begins, unless stopTeleprompter runs.
C10_CaptureGoesOn ==
    (isRecording /\ mediaRecorder = "inactive") ~> (mediaRecorder = "recording" \/ ~isRecording)

\* C10 witness: the loop has begun another capture while the status is PAUSED
\* and a transcription call is outstanding.
C10_Witness ==
    /\ lastOp.op = "recordChunk"
    /\ mediaRecorder = "recording"
    /\ status = "PAUSED"
    /\ Len(net) > 0

\* -------------------------------------------- properties of the endpoint
\* The handler has produced its response for a transcript that is empty or
\* whitespace only.
EmptyTranscriptAnswered ==
    /\ call.phase \in {"responded", "applied"}
    /\ call.asr.ok
    /\ \A k \in DOMAIN call.asr.text : IsSpaceChar(call.asr.text[k])

\* C11: a transcript that is empty or whitespace only gets the response
\* state PAUSED, confidence 0, matchedIndex null whatever the threshold, and
\* the client applying it sets status PAUSED and leaves currentWordIndex.
C11_EmptyTranscriptPauses ==
    EmptyTranscriptAnswered =>
        /\ call.response.state = "PAUSED"
        /\ ScoreEQ(call.response.confidence, ZeroScore)
        /\ call.response.matchedIndex = null
        /\ call.phase = "applied" =>
               /\ status = "PAUSED"
               /\ currentWordIndex = call.req.currentIndex

\* C11 witness: a whitespace-only transcript was answered under threshold 0
\* and applied by a client that was RUNNING.
C11_Witness ==
    /\ EmptyTranscriptAnswered
    /\ call.phase = "applied"
    /\ Len(call.asr.text) > 0
    /\ call.req.threshold.num = 0
    /\ status = "PAUSED"

\* A score between 0 and 1, both included.
InUnitRange(score) == score.den > 0 /\ 0 <= score.num /\ score.num <= score.den

\* calculateMatch has returned for a transcript of at least one token.
Matched == call.phase = "matched" /\ Len(call.transcriptTokens) > 0

\* C12: the score the matcher returns, and the best score it holds while it
\* runs, lie between 0 and 1.
C12_ScoreInUnitRange ==
    call.phase # "none" =>
        /\ InUnitRange(call.bestScore)
        /\ InUnitRange(call.matchResult.score)

\* C12 witness: the matcher has returned the score 1 for a transcript of
\* MaxTokens tokens.
C12_Witness ==
    /\ Matched
    /\ Len(call.transcriptTokens) >= MaxTokens
    /\ ScoreEQ(call.matchResult.score, [num |-> 1, den |-> 1])

\* One pass of the inner loop is taken in this step.
WalkTokenStep ==
    /\ call.phase = "walk"
    /\ call'.phase = "walk"
    /\ call'.j = call.j + 1

\* The token of that pass matches neither the window word at the cursor
\* (equal, or one a substring of the other) nor the next window word.
TokenMatchesNothing ==
    LET scriptWindow   == call.req.scriptWindow
        scriptWord     == normalizeText(scriptWindow[call.position + 1])
        transcriptWord == call.transcriptTokens[call.j + 1]
    IN  /\ scriptWord # transcriptWord
        /\ ~includes(scriptWord, transcriptWord)
        /\ ~includes(transcriptWord, scriptWord)
        /\ call.position + 1 < Len(scriptWindow) =>
               normalizeText(scriptWindow[call.position + 2]) # transcriptWord

\* C13: a token that matches neither the word at the cursor nor the next one
\* moves the cursor on by exactly 1 and earns no credit, wherever the cursor
\* is; every pass moves the cursor on by at least 1.
C13_MissAdvancesCursor ==
    [][WalkTokenStep =>
         /\ call'.position >= call.position + 1
         /\ TokenMatchesNothing =>
                /\ call'.position = call.position + 1
                /\ call'.matchCount = call.matchCount]_vars

\* The candidate start positions of the window, and the score of each.
Candidates == 0..(Len(call.req.scriptWindow) - 1)
ScoreAt(i) == CandidateScore(call.transcriptTokens, call.req.scriptWindow, i)

\* C14 as stated: for a transcript of at least one token the matcher returns
\* matchedIndex null only when the window is empty.
C14_NullOnlyForEmptyWindow ==
    (Matched /\ call.matchResult.matchedIndex = null) => call.req.scriptWindow = <<>>

\* C14 amended: for a transcript of at least one token the matcher returns
\* matchedIndex null exactly when no candidate start scores above 0 (an
\* empty window has no candidate).
C14_NullIffNoCredit ==
    Matched =>
        (call.matchResult.matchedIndex = null <=> \A i \in Candidates : ScoreAt(i).num = 0)

\* C14 witness: the matcher has returned null for a window that is not empty.
C14_Witness ==
    /\ Matched
    /\ call.matchResult.matchedIndex = null
    /\ call.req.scriptWindow # <<>>

\* The start positions at which the transcript tokens equal, token for token,
\* a contiguous run of the normalized window words.
RunStarts ==
    {i \in Candidates :
        /\ i + Len(call.transcriptTokens) <= Len(call.req.scriptWindow)
        /\ \A k \in DOMAIN call.transcriptTokens :
               normalizeText(call.req.scriptWindow[i + k]) = call.transcriptTokens[k]}

\* C15: when the transcript tokens equal a contiguous run of the normalized
\* window words, the matcher returns score 1 and the start of the earliest
\* such run.
C15_ExactRun ==
    (Matched /\ RunStarts # {}) =>
        /\ ScoreEQ(call.matchResult.score, [num |-> 1, den |-> 1])
        /\ call.matchResult.matchedIndex \in RunStarts
        /\ \A i \in RunStarts : call.matchResult.matchedIndex <= i

\* C15 witness: the matcher has returned for a transcript of MaxTokens tokens
\* or more that is a run of the window beginning after the window's start.
C15_Witness ==
    /\ Matched
    /\ Len(call.transcriptTokens) >= MaxTokens
    /\ RunStarts # {}
    /\ call.matchResult.matchedIndex > 0

\* The normalized window words.
WindowWords ==
    [k \in DOMAIN call.req.scriptWindow |-> normalizeText(call.req.scriptWindow[k])]

\* The window words are pairwise distinct and none is a substring of another.
WindowWordsApart ==
    \A a, b \in DOMAIN WindowWords : a # b => ~includes(WindowWords[a], WindowWords[b])

\* The transcript tokens are the first Len + 1 window words with the word at
\* place d (1-based) left out.
PrefixWithout(d) ==
    /\ Len(call.transcriptTokens) + 1 <= Len(WindowWords)
    /\ \A k \in DOMAIN call.transcriptTokens :
           call.transcriptTokens[k] = WindowWords[IF k < d THEN k ELSE k + 1]

\* One interior word of the window's prefix was dropped.
DroppedOneWord ==
    /\ WindowWordsApart
    /\ \E d \in 2..Len(call.transcriptTokens) : PrefixWithout(d)

\* C16: a transcript of n tokens that is the window's prefix with one
\* interior word left out, the window words being apart, gets matchedIndex 0
\* and the score ((n - 1) + 0.8) / n.
C16_DroppedWord ==
    (Matched /\ DroppedOneWord) =>
        /\ call.matchResult.matchedIndex = 0
        /\ ScoreEQ(call.matchResult.score,
                   [num |-> 10 * (Len(call.transcriptTokens) - 1) + 8,
                    den |-> 10 * Len(call.transcriptTokens)])

\* C16 witness: the matcher has returned for a three-token transcript with
\* one interior word of the window left out.
C16_Witness ==
    /\ Matched
    /\ DroppedOneWord
    /\ Len(call.transcriptTokens) = 3
    /\ call.matchResult.matchedIndex = 0

\* The candidate start positions whose score is the greatest of all.
BestCandidates ==
    {i \in Candidates : \A k \in Candidates : ScoreGE(ScoreAt(i), ScoreAt(k))}

C18_DegenerateInput ==
    (/\ call.phase = "matched"
     /\ \/ SplitOnSpace(normalizeText(call.transcript)) = <<>>
        \/ call.req.scriptWindow = <<>>) =>
        /\ ScoreEQ(call.matchResult.score, ZeroScore)
        /\ call.matchResult.matchedIndex = null

\* C18 witness: the matcher has returned for an empty window and a
\* transcript of MaxTokens tokens or more.
C18_Witness ==
    /\ Matched
    /\ Len(call.transcriptTokens) >= MaxTokens
    /\ call.req.scriptWindow = <<>>
    /\ call.matchResult.matchedIndex = null

\* normalize of the spec: normalizeText, then split(' ') without the empty
\* pieces, as calculateMatch does for the transcript.
normalize(text) == SplitOnSpace(normalizeText(text))

\* The provider's text has no letter, digit or underscore.
NoWordCharHeard == \A k \in DOMAIN call.asr.text : ~IsWordChar(call.asr.text[k])

\* C19: normalizing the tokens joined by spaces gives the tokens again; a
\* text of punctuation and whitespace only gives no token; every token is
\* non-empty and made of lowercase letters, digits and underscores.  The
\* tokens the handler holds are those of the provider's text.
C19_NormalizeIdempotent ==
    (call.phase \notin {"none", "received"} /\ call.asr.ok) =>
        \A tokens \in {normalize(call.asr.text)} :
            /\ normalize(JoinWords(tokens)) = tokens
            /\ NoWordCharHeard => tokens = <<>>
            /\ \A k \in DOMAIN tokens :
                   /\ tokens[k] # <<>>
                   /\ Range(tokens[k]) \subseteq (LowerSet \cup DigitChars \cup {"_"})
            /\ call.phase \in {"candidates", "walk", "matched"} =>
                   call.transcriptTokens = tokens

\* C19 witness: the handler holds the three tokens of a text with capitals,
\* punctuation, digits and runs of whitespace.
C19_Witness ==
    /\ call.phase = "candidates"
    /\ Len(call.transcriptTokens) = 3
    /\ \E k \in DOMAIN call.asr.text : call.asr.text[k] \in UpperSet
    /\ \E k \in DOMAIN call.asr.text : ~KeepChar(call.asr.text[k])
    /\ Len(call.asr.text) > Len(JoinWords(call.transcriptTokens)) + 2

\* The client applies, in this step, a result whose matchedIndex is null or
\* whose state is PAUSED.
AppliesNullResult ==
    /\ call.phase = "responded"
    /\ call'.phase = "applied"
    /\ call.response.ok
    /\ call.response.matchedIndex = null \/ call.response.state = "PAUSED"

\* C20: applying a result whose matchedIndex is null, or whose state is
\* PAUSED, changes the status at most: currentWordIndex, the script and the
\* capture activity stay as they were.
C20_NullResultKeepsIndex ==
    [][AppliesNullResult =>
         UNCHANGED <<currentWordIndex, scriptWords, view, isRecording, mediaRecorder,
                     orphans, audioChunks, startsPending, starts, endTimers,
                     nextTimers>>]_vars

\* C20 witness: a result with state RUNNING and matchedIndex null (threshold
\* 0, nothing matched) was applied, away from the script's start.
C20_Witness ==
    /\ call.phase = "applied"
    /\ call.response.ok
    /\ call.response.state = "RUNNING"
    /\ call.response.matchedIndex = null
    /\ currentWordIndex > 0
    /\ status = "PAUSED"

\* The handler has answered with an OK status.
Answered == call.phase \in {"responded", "applied"} /\ call.response.ok

\* C21: in every successful /transcribe response, matchedIndex is null
\* whenever the state is PAUSED or the transcript is empty; a matchedIndex
\* that is not null is the request's currentIndex plus the window-relative
\* position the matcher returned; and the confidence is the matcher's score.
C21_ResponseFields ==
    Answered =>
        \A matchResult \in {calculateMatch(call.asr.text, call.req.scriptWindow)} :
            /\ call.response.state = "PAUSED" => call.response.matchedIndex = null
            /\ trim(call.asr.text) = <<>> => call.response.matchedIndex = null
            /\ call.response.matchedIndex # null =>
                   /\ matchResult.matchedIndex # null
                   /\ call.response.matchedIndex =
                          call.req.currentIndex + matchResult.matchedIndex
            /\ call.response.confidence = matchResult.score

\* A response whose index is the sum of a window start and a relative
\* position that are both positive.
C21_Witness ==
    /\ Answered
    /\ call.response.matchedIndex # null
    /\ call.req.currentIndex > 0
    /\ call.matchResult.matchedIndex > 0
    /\ call.response.confidence # ZeroScore

\* C22: start() from IDLE moves the status to RUNNING and begins the
\* capture loop without changing currentIndex or the script; when the
\* microphone access fails, the status remains IDLE and no capture loop runs.
C22_StartFrame ==
    [][/\ lastOp'.op = "granted" =>
              /\ status' = "RUNNING"
              /\ isRecording'
              /\ CaptureBegins
              /\ UNCHANGED <<currentWordIndex, scriptWords>>
       /\ lastOp'.op = "denied" =>
              /\ status' = "IDLE"
              /\ ~isRecording'
              /\ Captures' = 0]_vars

\* What a reset or a jump must leave alone: the status, the capture loop and
\* its timers, the recorder, the requests in flight, the script.
SessionUnchanged ==
    UNCHANGED <<view, status, scriptWords, isRecording, mediaRecorder, orphans,
                audioChunks, startsPending, endTimers, nextTimers, net>>

\* C23: reset() is legal in IDLE, RUNNING and PAUSED, sets currentIndex to 0
\* and leaves the status and the capture activity unchanged; jump(index)
\* likewise changes only currentIndex.
C23_ResetJumpFrame ==
    /\ [](view = "teleprompter" => ENABLED resetPosition)
    /\ [][/\ lastOp'.op = "reset" => currentWordIndex' = 0 /\ SessionUnchanged
          /\ lastOp'.op = "jump" => SessionUnchanged]_vars

\* A reset made off script, in the middle of a capture, with a request in
\* flight.
C23_Witness ==
    /\ lastOp.op = "reset"
    /\ status = "PAUSED"
    /\ isRecording
    /\ mediaRecorder = "recording"
    /\ currentWordIndex = 0
    /\ net # <<>>

\* The nearest value to index within lo..hi.
Clamp(index, lo, hi) == IF index < lo THEN lo ELSE IF index > hi THEN hi ELSE index

\* C24: jump(index) sets currentIndex to index when 0 <= index <=
\* scriptLength, and to the nearest bound of [0, scriptLength] otherwise.
C24_JumpClamped ==
    [][\A index \in JumpIndices :
           jumpToWord(index) =>
               currentWordIndex' = Clamp(index, 0, Len(scriptWords))]_vars

\* A step in which a callback armed before the last stop runs.
StaleTimerFires ==
    \/ lastOp'.op = "chunkTimeout" /\ staleTimers.chunk > 0
    \/ lastOp'.op = "recordChunk" /\ staleTimers.gap > 0

\* C25: a timer armed by the capture loop before stop() has no effect on
\* capturing after that stop(): it neither stops nor starts a capture, even
\* when start() is called again before the timer fires.
C25_StaleTimersInert ==
    [][StaleTimerFires =>
           /\ mediaRecorder' = mediaRecorder
           /\ ~CaptureBegins
           /\ nextTimers' <= nextTimers]_vars

\* C26: a result moves currentWordIndex only if, when it is applied,
\* currentWordIndex still is the window start its request was built with: a
\* result computed against a window taken before a later jump, reset, script
\* load or other applied result does not move it.
C26_StaleWindowKeepsIndex ==
    [][(ResultStep /\ currentWordIndex # lastOp'.message.request.currentIndex) =>
           currentWordIndex' = currentWordIndex]_vars

\* C27: in every reachable state the status is IDLE exactly when the capture
\* loop is inactive: it is RUNNING or PAUSED if and only if isRecording is
\* true.
C27_IdleIffNotRecording ==
    /\ status = "IDLE" <=> ~isRecording
    /\ status \in {"RUNNING", "PAUSED"} <=> isRecording

\* A step in which a /transcribe request is built and sent.
RequestSent == Len(net') > Len(net)

\* C28: every transcription request carries the window
\* script[currentIndex .. min(currentIndex + matchingWindow, scriptLength))
\* cut at currentWordIndex as it is when the request is built: the window has
\* at most matchingWindow (30) words and the request's currentIndex field is
\* the window's absolute start.
C28_RequestWindow ==
    [][RequestSent =>
           \A request \in {net'[Len(net')]} :
               /\ request.currentIndex = currentWordIndex
               /\ Len(request.scriptWindow) =
                      Clamp(Len(scriptWords) - currentWordIndex, 0, matchingWindow)
               /\ \A k \in 1..Len(request.scriptWindow) :
                      request.scriptWindow[k] = scriptWords[currentWordIndex + k]
               /\ Len(request.scriptWindow) <= matchingWindow]_vars

\* A request just sent whose window is cut short of the script's end by the
\* window size, from an index that is not 0.
C28_Witness ==
    /\ lastOp.op \in {"chunkTimeout", "stop", "editScript"}
    /\ net # <<>>
    /\ net[Len(net)].currentIndex = currentWordIndex
    /\ currentWordIndex > 0
    /\ Len(net[Len(net)].scriptWindow) = matchingWindow
    /\ Len(scriptWords) > currentWordIndex + matchingWindow

\* calculateMatch has returned, by either of its return statements.
Returned == call.phase = "matched"

\* C29: for every transcript and window the matcher returns matchedIndex
\* null if and only if the score it returns is 0, and a matchedIndex that is
\* not null is a place of the window: 0 <= matchedIndex < window length.
C29_NullIffZeroScore ==
    Returned =>
        /\ call.matchResult.matchedIndex = null <=>
               ScoreEQ(call.matchResult.score, ZeroScore)
        /\ call.matchResult.matchedIndex # null =>
               /\ 0 <= call.matchResult.matchedIndex
               /\ call.matchResult.matchedIndex < Len(call.req.scriptWindow)

\* The matcher returns the last place of a window of several words.
C29_Witness ==
    /\ Returned
    /\ call.matchResult.matchedIndex > 0
    /\ call.matchResult.matchedIndex = Len(call.req.scriptWindow) - 1
    /\ ~ScoreEQ(call.matchResult.score, ZeroScore)

\* C30: for every threshold in [0,1] and every transcript, a /transcribe
\* response with state RUNNING has a matchedIndex that is not null.
C30_RunningHasIndex ==
    (Answered /\ call.response.state = "RUNNING") => call.response.matchedIndex # null

\* The two words a pass of the inner loop compares: the normalized window
\* word at the cursor and the transcript token.
CursorWord == normalizeText(call.req.scriptWindow[call.position + 1])
SpokenToken == call.transcriptTokens[call.j + 1]

\* b is not empty and occurs in a.
IncludesNonEmpty(a, b) == b # <<>> /\ includes(a, b)

\* C31: a window word whose normalized form is the empty string (a script
\* word of punctuation only) never contributes credit: a pass with the cursor
\* on such a word earns nothing for it (at most the 0.8 of the next word),
\* and the partial credit of 0.5 is given only when one of the two compared
\* normalized words is a non-empty substring of the other.
C31_EmptyWordNoCredit ==
    [][WalkTokenStep =>
         /\ CursorWord = <<>> =>
                call'.matchCount \in {call.matchCount, call.matchCount + 8}
         /\ call'.matchCount = call.matchCount + 5 =>
                \/ IncludesNonEmpty(CursorWord, SpokenToken)
                \/ IncludesNonEmpty(SpokenToken, CursorWord)]_vars

====
